---- MODULE Spec2Model ----
(***************************************************************************)
(* Model of the xrpd_parser line parser: the file-level driver             *)
(* (main.parse_file), the Measurement parser, the Structure parser and the *)
(* Atom and Value decoders.  One shared cursor (line_queue) is consumed    *)
(* from the front.  A line is a record [ind, c]: ind is the number of      *)
(* leading tab characters (0, 1 or 2) and c is the text after them, kept   *)
(* in the shape the regular expressions of the code take it apart.         *)
(***************************************************************************)
EXTENDS Integers, Sequences, FiniteSets, TLC

VARIABLES
    line_queue,     \* the deque of lines still to be parsed
    pc,             \* whose loop is running: driver, measurement, structure, done, raised
    measurements,   \* parse_file's result list
    cur_m,          \* the Measurement under construction
    cur_s,          \* the Structure under construction
    error,          \* the exception that aborted the parse, or NoError
    input,          \* history: the lines read from the file
    m_entry,        \* history: the cursor when Measurement._parse was entered
    s_entry,        \* history: the cursor when Structure._parse was entered
    blocks,         \* history: the Structures completed in the current Measurement
    dataframes      \* the two row lists to_dataframes returns

vars == <<line_queue, pc, measurements, cur_m, cur_s, error, input, m_entry, s_entry, blocks,
          dataframes>>

----------------------------------------------------------------------------
(* Exceptions *)

NoError == [kind |-> "None", arg |-> ""]

Err(kind, arg) == [kind |-> kind, arg |-> arg]

ParsingError(str_to_parse) == Err("ParsingError", str_to_parse)

MissingInformationError(missing_information) == Err("MissingInformationError", missing_information)

DuplicatedParameterError(parameter) == Err("DuplicatedParameterError", parameter)

ValueError(message) == Err("ValueError", message)

IndexError(message) == Err("IndexError", message)

----------------------------------------------------------------------------
(* Value tokens and the Value decoder (value.py).                          *)
(* A token is the text handed to Value(): a scalar `[@ ]num[`_err][ extra]` *)
(* (extra says whether trailing text follows the numbers), a fraction      *)
(* `=n/d; : chk`, or text neither expression matches.                      *)

Scalar(at, num, has_err, err, extra) ==
    [form |-> "scalar", at |-> at, num |-> num, has_err |-> has_err, err |-> err,
     extra |-> extra]

Fraction(n, d) == [form |-> "fraction", n |-> n, d |-> d]

BadToken == [form |-> "bad"]

RECURSIVE GCD(_, _)
GCD(x, y) == IF y = 0 THEN x ELSE GCD(y, x % y)

\* a float, kept exact as a reduced fraction
Float(n, d) == LET g == GCD(n, d) IN [n |-> n \div g, d |-> d \div g]

\* Value._parse: the decoded Value, or the ParsingError it raises
ValueParse(value_str) ==
    IF value_str.form = "scalar"
    THEN [error |-> NoError,
          value |-> [type |-> "Value",
                     value |-> Float(value_str.num, 1),
                     error |-> IF value_str.has_err THEN Float(value_str.err, 1) ELSE Float(0, 1),
                     has_been_fitted |-> value_str.at,
                     parameters |-> value_str.extra]]
    ELSE IF value_str.form = "fraction"
    THEN [error |-> NoError,
          value |-> [type |-> "Value",
                     value |-> Float(value_str.n, value_str.d),
                     error |-> Float(0, 1),
                     has_been_fitted |-> FALSE,
                     parameters |-> TRUE]]
    ELSE [error |-> ParsingError("value"), value |-> [type |-> "None"]]

----------------------------------------------------------------------------
(* Line contents *)

\* xdd ...: the measurement declaration; quoted says the keyword is followed
\* by ` "<ref>"`, ref is the characters between the quotes
XddLine(quoted, ref) == [k |-> "xdd", quoted |-> quoted, ref |-> ref]

\* str...: the structure-start line
StrLine == [k |-> "str"]

\* r_exp...: the line split at whitespace; names are the words at positions
\* 0, 2, 4, ... (the keyword first) and values the words at 1, 3, 5, ...
RExpLine(names, values) == [k |-> "r_exp", names |-> names, values |-> values]

\* phase_name "<name>"
PhaseNameLine(name) == [k |-> "phase_name", name |-> name]

\* <name>(<v1>,<v2>,...): values are the comma-separated pieces, stripped
ParenLine(name, values) == [k |-> "paren", name |-> name, values |-> values]

\* site ...: matches says ATOM_REGEX matches the line; fields are the value
\* tokens of x, y, z, occ and beq
SiteLine(matches, name, fields) ==
    [k |-> "site", matches |-> matches, name |-> name, fields |-> fields]

\* <first> [<rest>]: any other non-blank line, split once at whitespace;
\* rest holds the remainder as a value token, or is empty
WordsLine(first, rest) == [k |-> "words", first |-> first, rest |-> rest]

\* a line holding nothing but whitespace
BlankLine == [k |-> "blank"]

L(ind, c) == [ind |-> ind, c |-> c]

----------------------------------------------------------------------------
(* Class-level tables of Structure (structure.py) *)

NUMERICAL_PARAMS == {"r_bragg", "phase_MAC", "scale", "a", "b", "c", "al", "be", "ga"}

\* each slot already split at "="
CRYSTAL_SYSTEMS ==
    [Triclinic    |-> << <<"a">>, <<"b">>, <<"c">>, <<"al">>, <<"be">>, <<"ga">> >>,
     Monoclinic   |-> << <<"a">>, <<"b">>, <<"c">>, <<"be">> >>,
     Orthorhombic |-> << <<"a">>, <<"b">>, <<"c">> >>,
     Tetragonal   |-> << <<"a", "b">>, <<"c">> >>,
     Hexagonal    |-> << <<"a", "b">>, <<"c">> >>,
     Trigonal     |-> << <<"a", "b">>, <<"c">> >>,
     Cubic        |-> << <<"a", "b", "c">> >>]

REQUIRED_PARAMS == {"r_bragg", "molar_mass", "cell_volume", "mass_fraction"}

----------------------------------------------------------------------------
(* Atom (atom.py) *)

\* Atom._parse: ValueError when ATOM_REGEX does not match, else the five
\* Value fields decoded in the order x, y, z, occ, beq
AtomParse(site) ==
    IF ~site.matches
    THEN [error |-> ValueError("atom line"), atom |-> [name |-> ""]]
    ELSE LET vals == [i \in 1..5 |-> ValueParse(site.fields[i])]
             bad  == {i \in 1..5 : vals[i].error # NoError}
         IN  IF bad # {}
             THEN [error |-> vals[CHOOSE i \in bad : \A j \in bad : i <= j].error,
                   atom |-> [name |-> ""]]
             ELSE [error |-> NoError,
                   atom |-> [name |-> site.name,
                             x_value |-> vals[1].value, y_value |-> vals[2].value,
                             z_value |-> vals[3].value, occ |-> vals[4].value,
                             beq |-> vals[5].value]]

----------------------------------------------------------------------------
(* Structure (structure.py) *)

EmptyMap == [x \in {} |-> 0]

\* Structure.__init__ before _parse runs
NewStructure == [phase_name |-> "", params |-> EmptyMap, atoms |-> <<>>]

\* _set_parameter without the test for an already-present key
SetParameter_Overwrite(params, parameter_name, value) ==
    [params |-> [k \in DOMAIN params \cup {parameter_name} |->
                    IF k = parameter_name THEN value ELSE params[k]],
     error |-> NoError]

\* Structure._set_parameter
SetParameter(params, parameter_name, value) ==
    IF parameter_name \in DOMAIN params
    THEN [params |-> params, error |-> DuplicatedParameterError(parameter_name)]
    ELSE [params |-> params @@ (parameter_name :> value), error |-> NoError]

\* the text stored as it stands, undecoded, once it is known to decode
SetValue_Undecoded(params, parameter_name, token) ==
    LET v == ValueParse(token)
    IN  IF v.error # NoError
        THEN [params |-> params, error |-> v.error]
        ELSE SetParameter(params, parameter_name, [type |-> "str", str |-> "text"])

\* self._set_parameter(name, Value(token)): the Value is decoded first
SetValue(params, parameter_name, token) ==
    LET v == ValueParse(token)
    IN  IF v.error # NoError
        THEN [params |-> params, error |-> v.error]
        ELSE SetParameter(params, parameter_name, v.value)

\* a run of self._set_parameter(name, Value(token)) calls, stopping at the
\* first one that raises; assigns is the sequence of <<name, token>>
RECURSIVE SetEach(_, _)
SetEach(params, assigns) ==
    IF assigns = <<>>
    THEN [params |-> params, error |-> NoError]
    ELSE LET r == SetValue(params, Head(assigns)[1], Head(assigns)[2])
         IN  IF r.error # NoError THEN r ELSE SetEach(r.params, Tail(assigns))

\* the zip with only the first name of each slot assigned
RECURSIVE ZipSlots_FirstNameOnly(_, _)
ZipSlots_FirstNameOnly(values, slots) ==
    IF values = <<>> \/ slots = <<>>
    THEN <<>>
    ELSE << <<Head(slots)[1], Head(values)>> >>
         \o ZipSlots_FirstNameOnly(Tail(values), Tail(slots))

\* the zip of values and template slots, one <<name, token>> per name of a slot
RECURSIVE ZipSlots(_, _)
ZipSlots(values, slots) ==
    IF values = <<>> \/ slots = <<>>
    THEN <<>>
    ELSE [i \in 1..Len(Head(slots)) |-> <<Head(slots)[i], Head(values)>>]
         \o ZipSlots(Tail(values), Tail(slots))

\* _parse_crystal_system without the comparison of the two lengths
ParseCrystalSystem_NoArityCheck(params, crystal_system, values) ==
    IF crystal_system \notin DOMAIN CRYSTAL_SYSTEMS
    THEN [params |-> params, error |-> ValueError("crystal system not available")]
    ELSE LET r == SetParameter(params, "crystal_system",
                               [type |-> "str", str |-> crystal_system])
         IN  IF r.error # NoError
             THEN r
             ELSE SetEach(r.params, ZipSlots(values, CRYSTAL_SYSTEMS[crystal_system]))

\* Structure._parse_crystal_system
ParseCrystalSystem(params, crystal_system, values) ==
    IF crystal_system \notin DOMAIN CRYSTAL_SYSTEMS
    THEN [params |-> params, error |-> ValueError("crystal system not available")]
    ELSE LET r == SetParameter(params, "crystal_system",
                               [type |-> "str", str |-> crystal_system])
         IN  IF r.error # NoError
             THEN r
             ELSE IF Len(values) # Len(CRYSTAL_SYSTEMS[crystal_system])
                  THEN [params |-> r.params, error |-> ValueError("number of values")]
                  ELSE SetEach(r.params, ZipSlots(values, CRYSTAL_SYSTEMS[crystal_system]))

\* mvw_regex matches `MVW(` g1 `,` g2 `,` g3 `)` with greedy groups: a line of
\* the parenthesised shape named MVW with at least two commas
MatchesMVW(c) == c.k = "paren" /\ c.name = "MVW" /\ Len(c.values) >= 3

\* the three groups of mvw_regex: the last two pieces are groups 2 and 3 and
\* group 1 is all the text before them, commas included, which decodes as a
\* Value only when its first piece is a scalar followed by trailing text
MVWGroups(values) ==
    LET n == Len(values)
    IN  << IF n = 3 THEN values[1]
           ELSE IF values[1].form = "scalar" /\ values[1].extra THEN values[1]
           ELSE BadToken,
           values[n - 1], values[n] >>

\* param_with_parentheses_regex: letters, then a parenthesised text
MatchesParen(c) == c.k = "paren"

\* every parenthesised line handed to _parse_crystal_system
IsCrystalSystem_Any(name) == TRUE

\* the test `match.group(1) in self.CRYSTAL_SYSTEMS` of Structure._parse
IsCrystalSystem(name) == name \in DOMAIN CRYSTAL_SYSTEMS

\* the body of the while loop of Structure._parse for one stripped line
ParseStructureLine(s, c) ==
    IF c.k = "phase_name"
    THEN [s |-> [s EXCEPT !.phase_name = c.name], error |-> NoError]
    ELSE IF MatchesMVW(c)
    THEN LET g == MVWGroups(c.values)
             r == SetEach(s.params, << <<"molar_mass", g[1]>>, <<"cell_volume", g[2]>>,
                                       <<"mass_fraction", g[3]>> >>)
         IN  [s |-> [s EXCEPT !.params = r.params], error |-> r.error]
    ELSE IF MatchesParen(c)
    THEN IF IsCrystalSystem(c.name)
         THEN LET r == ParseCrystalSystem(s.params, c.name, c.values)
              IN  [s |-> [s EXCEPT !.params = r.params], error |-> r.error]
         ELSE [s |-> s, error |-> NoError]
    ELSE IF c.k = "site"
    THEN LET r == AtomParse(c)
         IN  IF r.error # NoError
             THEN [s |-> s, error |-> r.error]
             ELSE [s |-> [s EXCEPT !.atoms = Append(@, r.atom)], error |-> NoError]
    ELSE IF c.k = "words" /\ c.first \in NUMERICAL_PARAMS
    THEN IF c.rest = <<>>
         THEN [s |-> s, error |-> ValueError("parameter without value")]
         ELSE LET r == SetValue(s.params, c.first, c.rest[1])
              IN  [s |-> [s EXCEPT !.params = r.params], error |-> r.error]
    ELSE [s |-> s, error |-> NoError]

\* the end-of-block checks with the required keys looked at before phase_name
EndOfBlockErrors_KeysFirst(s) ==
    IF REQUIRED_PARAMS \ DOMAIN s.params # {}
    THEN {MissingInformationError(p) : p \in REQUIRED_PARAMS \ DOMAIN s.params}
    ELSE IF s.phase_name = "" THEN {MissingInformationError("phase_name")} ELSE {}

\* the checks after the loop of Structure._parse: the errors it can raise
\* (REQUIRED_PARAMS is a set of strings, iterated in no fixed order)
EndOfBlockErrors(s) ==
    IF s.phase_name = ""
    THEN {MissingInformationError("phase_name")}
    ELSE {MissingInformationError(p) : p \in REQUIRED_PARAMS \ DOMAIN s.params}

----------------------------------------------------------------------------
(* Measurement (measurement.py) *)

\* the characters a source reference is made of; Suffix is the text -0_C.xy
Suffix == "-0_C.xy"

\* the characters \d matches, of which the model uses two
Digits == {"0", "2"}

DigitValue(d) == IF d = "0" THEN 0 ELSE 2

\* XDD_REGEX.match
MatchesXdd(c) == c.k = "xdd" /\ c.quoted /\ Len(c.ref) >= 1

\* TEMPERATURE_REGEX.search: an underscore, a run of digits and the suffix,
\* at the end of the path; group1 is the digit run
RECURSIVE DigitRunStart(_, _)
DigitRunStart(path, i) ==
    IF i >= 1 /\ path[i] \in Digits THEN DigitRunStart(path, i - 1) ELSE i + 1

TemperatureSearch(path) ==
    LET n == Len(path)
    IN  IF n = 0 \/ path[n] # Suffix
        THEN [matched |-> FALSE, group1 |-> <<>>]
        ELSE LET s == DigitRunStart(path, n - 1)
             IN  IF s <= n - 1 /\ s >= 2 /\ path[s - 1] = "_"
                 THEN [matched |-> TRUE, group1 |-> SubSeq(path, s, n - 1)]
                 ELSE [matched |-> FALSE, group1 |-> <<>>]

\* zeros stripped from both ends, as str.strip("0") does
RECURSIVE LStripZeros_BothEnds(_)
LStripZeros_BothEnds(digits) ==
    IF digits # <<>> /\ Head(digits) = "0" THEN LStripZeros_BothEnds(Tail(digits))
    ELSE IF digits # <<>> /\ digits[Len(digits)] = "0"
    THEN LStripZeros_BothEnds(SubSeq(digits, 1, Len(digits) - 1))
    ELSE digits

\* str.lstrip("0")
RECURSIVE LStripZeros(_)
LStripZeros(digits) ==
    IF digits # <<>> /\ Head(digits) = "0" THEN LStripZeros(Tail(digits)) ELSE digits

\* float() of a non-empty run of digits
RECURSIVE FloatOfDigits(_)
FloatOfDigits(digits) ==
    IF digits = <<>> THEN 0
    ELSE 10 * FloatOfDigits(SubSeq(digits, 1, Len(digits) - 1))
         + DigitValue(digits[Len(digits)])

\* Measurement._parse_xdd_call
ParseXddCall(calling_line) ==
    IF ~MatchesXdd(calling_line)
    THEN [error |-> ValueError("xy filename"), xy_file_path |-> <<>>, temperature |-> 0]
    ELSE LET m == TemperatureSearch(calling_line.ref)
         IN  IF ~m.matched
             THEN [error |-> ValueError("temperature"), xy_file_path |-> <<>>,
                   temperature |-> 0]
             ELSE LET t == LStripZeros(m.group1)
                  IN  [error |-> NoError, xy_file_path |-> calling_line.ref,
                       temperature |-> IF t # <<>> THEN FloatOfDigits(t) ELSE 0]

\* a dict that keeps insertion order: a sequence of [key, val] entries
DictKeys(d) == {d[i].key : i \in 1..Len(d)}

DictGet(d, key) == d[CHOOSE i \in 1..Len(d) : d[i].key = key].val

\* a store that keeps the entry a key already has, as dict.setdefault does
DictSet_KeepFirst(d, key, val) ==
    IF key \in DictKeys(d) THEN d ELSE Append(d, [key |-> key, val |-> val])

\* d[key] = val
DictSet(d, key, val) ==
    IF key \in DictKeys(d)
    THEN [i \in 1..Len(d) |-> IF d[i].key = key THEN [key |-> key, val |-> val] ELSE d[i]]
    ELSE Append(d, [key |-> key, val |-> val])

\* the r_exp branch of Measurement._parse: names are the words at the even
\* positions of the split line, values the words that follow each of them
RECURSIVE ParseFitQuality(_, _, _)
ParseFitQuality(params, names, values) ==
    IF names = <<>>
    THEN [params |-> params, error |-> NoError]
    ELSE IF values = <<>>
    THEN [params |-> params, error |-> IndexError("list index out of range")]
    ELSE LET v == ValueParse(Head(values))
         IN  IF v.error # NoError
             THEN [params |-> params, error |-> v.error]
             ELSE ParseFitQuality(DictSet(params, Head(names), v.value),
                                  Tail(names), Tail(values))

\* Measurement.__init__ after _parse_xdd_call, before _parse
NewMeasurement(xy_file_path, temperature) ==
    [xy_file_path |-> xy_file_path, temperature |-> temperature,
     params |-> <<>>, structures |-> <<>>]

\* the test for a declaration looking past leading tabs
StartsWithXdd_PastTabs(line) == line.c.k = "xdd"

\* the tests on the first characters of a line
StartsWithXdd(line) == line.ind = 0 /\ line.c.k = "xdd"

StartsWithTab(line) == line.ind >= 1

StartsWithTwoTabs(line) == line.ind >= 2

StartsWithTabStr(line) == line.ind = 1 /\ line.c.k = "str"

StartsWithTabRExp(line) == line.ind = 1 /\ line.c.k = "r_exp"

\* the loop conditions of parse_file, Measurement._parse and Structure._parse
DriverLoop(queue) == queue # <<>>

\* the Measurement loop without the indentation test
MeasurementLoop_NoIndentTest(queue) == queue # <<>>

MeasurementLoop(queue) == queue # <<>> /\ StartsWithTab(Head(queue))

\* the Structure loop testing for one tab only
StructureLoop_OneTab(queue) == queue # <<>> /\ StartsWithTab(Head(queue))

StructureLoop(queue) == queue # <<>> /\ StartsWithTwoTabs(Head(queue))

----------------------------------------------------------------------------
(* The parse as a state machine: one step per iteration of the three loops *)

NoMeasurement == NewMeasurement(<<>>, 0)

Raise(e) ==
    /\ pc' = "raised"
    /\ error' = e

\* parse_file: a popped line that does not start with xdd is dropped
DriverSkip ==
    /\ pc = "driver"
    /\ DriverLoop(line_queue)
    /\ ~StartsWithXdd(Head(line_queue))
    /\ line_queue' = Tail(line_queue)
    /\ UNCHANGED <<pc, measurements, cur_m, cur_s, error, input, m_entry, s_entry, blocks>>
    /\ UNCHANGED dataframes

\* parse_file pops an xdd line and calls Measurement(line, line_queue), whose
\* constructor runs _parse_xdd_call and then enters _parse
DriverDeclaration ==
    /\ pc = "driver"
    /\ DriverLoop(line_queue)
    /\ StartsWithXdd(Head(line_queue))
    /\ line_queue' = Tail(line_queue)
    /\ LET r == ParseXddCall(Head(line_queue).c)
       IN  IF r.error # NoError
           THEN /\ Raise(r.error)
                /\ UNCHANGED <<cur_m, m_entry, blocks>>
           ELSE /\ pc' = "measurement"
                /\ cur_m' = NewMeasurement(r.xy_file_path, r.temperature)
                /\ m_entry' = Tail(line_queue)
                /\ blocks' = <<>>
                /\ UNCHANGED error
    /\ UNCHANGED <<measurements, cur_s, input, s_entry>>
    /\ UNCHANGED dataframes

\* parse_file: the queue is empty, the list of measurements is returned
DriverReturn ==
    /\ pc = "driver"
    /\ ~DriverLoop(line_queue)
    /\ pc' = "done"
    /\ UNCHANGED <<line_queue, measurements, cur_m, cur_s, error, input, m_entry, s_entry, blocks>>
    /\ UNCHANGED dataframes

\* Measurement._parse: one iteration of the while loop
MeasurementLine ==
    /\ pc = "measurement"
    /\ MeasurementLoop(line_queue)
    /\ line_queue' = Tail(line_queue)
    /\ LET line == Head(line_queue)
       IN  IF StartsWithTabStr(line)
           THEN /\ pc' = "structure"
                /\ cur_s' = NewStructure
                /\ s_entry' = Tail(line_queue)
                /\ UNCHANGED <<cur_m, error>>
           ELSE IF StartsWithTabRExp(line)
           THEN LET r == ParseFitQuality(cur_m.params, line.c.names, line.c.values)
                IN  /\ cur_m' = [cur_m EXCEPT !.params = r.params]
                    /\ IF r.error # NoError THEN Raise(r.error) ELSE UNCHANGED <<pc, error>>
                    /\ UNCHANGED <<cur_s, s_entry>>
           ELSE UNCHANGED <<pc, cur_m, cur_s, error, s_entry>>
    /\ UNCHANGED <<measurements, input, m_entry, blocks>>
    /\ UNCHANGED dataframes

\* Measurement._parse: the loop ends, the constructor returns and parse_file
\* appends the Measurement
MeasurementReturn ==
    /\ pc = "measurement"
    /\ ~MeasurementLoop(line_queue)
    /\ measurements' = Append(measurements, cur_m)
    /\ pc' = "driver"
    /\ UNCHANGED <<line_queue, cur_m, cur_s, error, input, m_entry, s_entry, blocks>>
    /\ UNCHANGED dataframes

\* Structure._parse: one iteration of the while loop
StructureLine ==
    /\ pc = "structure"
    /\ StructureLoop(line_queue)
    /\ line_queue' = Tail(line_queue)
    /\ LET r == ParseStructureLine(cur_s, Head(line_queue).c)
       IN  /\ cur_s' = r.s
           /\ IF r.error # NoError THEN Raise(r.error) ELSE UNCHANGED <<pc, error>>
    /\ UNCHANGED <<measurements, cur_m, input, m_entry, s_entry, blocks>>
    /\ UNCHANGED dataframes

\* Structure._parse: the loop ends and the required information is checked;
\* the constructor returns and Measurement._parse stores the Structure
StructureReturn ==
    /\ pc = "structure"
    /\ ~StructureLoop(line_queue)
    /\ LET errs == EndOfBlockErrors(cur_s)
       IN  IF errs # {}
           THEN /\ \E e \in errs : Raise(e)
                /\ UNCHANGED <<cur_m, blocks>>
           ELSE /\ cur_m' = [cur_m EXCEPT !.structures = DictSet(@, cur_s.phase_name, cur_s)]
                /\ blocks' = Append(blocks, cur_s)
                /\ pc' = "measurement"
                /\ UNCHANGED error
    /\ UNCHANGED <<line_queue, measurements, cur_s, input, m_entry, s_entry>>
    /\ UNCHANGED dataframes

\* nan
NaN == [n |-> 0, d |-> 0]

\* Structure.PARAM2HAS_ERROR
PARAM2HAS_ERROR ==
    [r_bragg |-> FALSE, a |-> TRUE, b |-> TRUE, c |-> TRUE, al |-> TRUE, be |-> TRUE,
     ga |-> TRUE, molar_mass |-> TRUE, cell_volume |-> TRUE, mass_fraction |-> TRUE]

\* Structure.to_dict with parameters = None: per parameter the columns
\* <p> and, where the parameter carries an error, <p>_err
ToDict(s) ==
    [p \in DOMAIN PARAM2HAS_ERROR |->
        IF PARAM2HAS_ERROR[p]
        THEN [value |-> IF p \in DOMAIN s.params THEN s.params[p].value ELSE NaN,
              err   |-> IF p \in DOMAIN s.params THEN s.params[p].error ELSE NaN]
        ELSE [value |-> IF p \in DOMAIN s.params THEN s.params[p].value ELSE NaN]]

\* Atom.to_dict
AtomToDict(atom) ==
    [name |-> atom.name,
     x |-> atom.x_value.value, x_err |-> atom.x_value.error,
     x_fitted |-> atom.x_value.has_been_fitted,
     y |-> atom.y_value.value, y_err |-> atom.y_value.error,
     y_fitted |-> atom.y_value.has_been_fitted,
     z |-> atom.z_value.value, z_err |-> atom.z_value.error,
     z_fitted |-> atom.z_value.has_been_fitted,
     occ |-> atom.occ.value, beq |-> atom.beq.value, beq_err |-> atom.beq.error]

\* the locals of to_dataframes before its loop: the two row lists, and the
\* loop variables phase_name and structure, which are unbound
NewFrames ==
    [data_structures |-> <<>>, data_atoms |-> <<>>, bound |-> FALSE,
     phase_name |-> "", structure |-> NewStructure, error |-> NoError]

\* the inner loop of to_dataframes: one row per item of measurement.structures,
\* leaving phase_name and structure bound to the last item
StructureRows(f, measurement_id, measurement) ==
    LET items == measurement.structures
    IN  [f EXCEPT
           !.data_structures = @ \o
               [j \in 1..Len(items) |->
                   [measurement_id |-> measurement_id,
                    file_name |-> measurement.xy_file_path,
                    temperature |-> measurement.temperature,
                    phase_name |-> items[j].key,
                    columns |-> ToDict(items[j].val)]],
           !.bound = @ \/ items # <<>>,
           !.phase_name = IF items # <<>> THEN items[Len(items)].key ELSE @,
           !.structure = IF items # <<>> THEN items[Len(items)].val ELSE @]

\* the loop over the atoms, which follows the inner loop and so reads
\* structure and phase_name as the inner loop left them
AtomRows(f, measurement_id, measurement) ==
    IF ~f.bound
    THEN [f EXCEPT !.error = Err("UnboundLocalError", "structure")]
    ELSE [f EXCEPT
            !.data_atoms = @ \o
                [j \in 1..Len(f.structure.atoms) |->
                    [measurement_id |-> measurement_id,
                     temperature |-> measurement.temperature,
                     phase_name |-> f.phase_name,
                     columns |-> AtomToDict(f.structure.atoms[j])]]]

\* to_dataframes: the outer loop from the i-th measurement on
RECURSIVE DataframesFrom(_, _, _)
DataframesFrom(f, ms, i) ==
    IF i > Len(ms) \/ f.error # NoError
    THEN f
    ELSE DataframesFrom(AtomRows(StructureRows(f, i - 1, ms[i]), i - 1, ms[i]), ms, i + 1)

\* main: parse_file has returned and to_dataframes runs on its result
ToDataframes ==
    /\ pc = "done"
    /\ LET f == DataframesFrom(NewFrames, measurements, 1)
       IN  IF f.error # NoError
           THEN /\ pc' = "export_raised"
                /\ error' = f.error
                /\ UNCHANGED dataframes
           ELSE /\ pc' = "exported"
                /\ dataframes' = [structures |-> f.data_structures, atoms |-> f.data_atoms]
                /\ UNCHANGED error
    /\ UNCHANGED <<line_queue, measurements, cur_m, cur_s, input, m_entry, s_entry, blocks>>

Next ==
    \/ ToDataframes
    \/ DriverSkip
    \/ DriverDeclaration
    \/ DriverReturn
    \/ MeasurementLine
    \/ MeasurementReturn
    \/ StructureLine
    \/ StructureReturn

----------------------------------------------------------------------------
(* The inputs explored *)

MaxChunks == 4

MaxBlock == 2

MaxRefLen == 5

\* value tokens: the i-th one decodes to the number i
Tok(i) == Scalar(i % 2 = 1, i, TRUE, i, FALSE)

TokExtra == Scalar(FALSE, 9, FALSE, 0, TRUE)

SeqsUpTo(S, n) == UNION {[1..k -> S] : k \in 0..n}

RECURSIVE Flatten(_)
Flatten(ss) == IF ss = <<>> THEN <<>> ELSE Head(ss) \o Flatten(Tail(ss))

Ref(digits) == <<"x", "_">> \o digits \o <<Suffix>>

GoodSite(name) == SiteLine(TRUE, name, [i \in 1..5 |-> Tok(i)])

MVWLine == ParenLine("MVW", <<Tok(1), Tok(2), Tok(3)>>)

\* a complete structure block: start line, phase name, the three derived
\* quantities, r_bragg and one atom site
PhaseChunk(name, v) ==
    << L(1, StrLine), L(2, PhaseNameLine(name)), L(2, MVWLine),
       L(2, WordsLine("r_bragg", <<Tok(v)>>)), L(2, GoodSite("Fe")) >>

\* whole files, built from a few kinds of chunk
Chunks ==
    { << L(0, XddLine(TRUE, Ref(<<"0", "2">>))) >>,
      << L(0, XddLine(TRUE, Ref(<<"0">>))) >>,
      << L(0, BlankLine) >>,
      << L(1, RExpLine(<<"r_exp", "r_wp">>, <<Tok(1), Tok(2)>>)) >>,
      << L(2, WordsLine("a", <<Tok(4)>>)) >>,
      PhaseChunk("A", 1), PhaseChunk("A", 2), PhaseChunk("B", 1) }

FileInputs == {Flatten(cs) : cs \in SeqsUpTo(Chunks, MaxChunks)}

\* the stripped lines tried inside one structure block
ShorthandLines ==
    { ParenLine(n, [i \in 1..Len(CRYSTAL_SYSTEMS[n]) |-> Tok(i)]) : n \in DOMAIN CRYSTAL_SYSTEMS }
    \cup { ParenLine("Tetragonal", <<Tok(1), Tok(2), Tok(3)>>),
           ParenLine("Tetragonal", <<BadToken>>),
           ParenLine("Cubic", <<Tok(1), Tok(2)>>),
           ParenLine("Triclinic", <<Tok(1), Tok(2), Tok(3), Tok(4), Tok(5)>>),
           ParenLine("Cubic", <<BadToken>>),
           ParenLine("Foo", <<Tok(1)>>),
           ParenLine("MVW", <<Tok(1), Tok(2)>>) }

StructLines ==
    ShorthandLines
    \cup { PhaseNameLine("A"), PhaseNameLine(""),
           MVWLine,
           ParenLine("MVW", <<Tok(1), Tok(2), BadToken>>),
           ParenLine("MVW", <<TokExtra, Tok(1), Tok(2), Tok(3)>>),
           WordsLine("r_bragg", <<Tok(1)>>), WordsLine("r_bragg", <<>>),
           WordsLine("r_bragg", <<BadToken>>),
           WordsLine("a", <<Tok(5)>>), WordsLine("c", <<Tok(6)>>),
           WordsLine("be", <<Fraction(1, 3)>>),
           WordsLine("molar_mass", <<Tok(1)>>),
           GoodSite("O"), SiteLine(FALSE, "", <<>>),
           SiteLine(TRUE, "O", [i \in 1..5 |-> IF i = 3 THEN BadToken ELSE Tok(i)]),
           BlankLine, StrLine }

CompleteLines == <<PhaseNameLine("A"), MVWLine, WordsLine("r_bragg", <<Tok(1)>>)>>

BlockInputs ==
    { << L(0, XddLine(TRUE, Ref(<<"2">>))), L(1, StrLine) >>
      \o [i \in 1..Len(pre \o b) |-> L(2, (pre \o b)[i])]
         : pre \in {<<>>, CompleteLines}, b \in SeqsUpTo(StructLines, MaxBlock) }

\* declaration lines over every short source reference
RefChars == {"x", "_", Suffix} \cup Digits

DeclarationInputs ==
    { << L(0, XddLine(TRUE, ref)), L(1, BlankLine) >> : ref \in SeqsUpTo(RefChars, MaxRefLen) }
    \cup { << L(0, XddLine(FALSE, Ref(<<"2">>))), L(1, BlankLine) >>,
           << L(0, XddLine(TRUE, Ref(<<"2">>))),
              L(1, RExpLine(<<"r_exp", "r_wp">>, <<Tok(1)>>)) >>,
           << L(0, XddLine(TRUE, Ref(<<"2">>))),
              L(1, RExpLine(<<"r_exp">>, <<BadToken>>)) >> }

\* lines placed behind the blank line that ends a measurement's block: a
\* structure start, structure lines, and lines on which the parsers raise
TrailingLines ==
    { L(1, StrLine), L(2, PhaseNameLine("B")), L(2, GoodSite("O")),
      L(2, SiteLine(FALSE, "", <<>>)), L(2, WordsLine("r_bragg", <<>>)),
      L(2, WordsLine("a", <<BadToken>>)),
      L(1, RExpLine(<<"r_exp">>, <<BadToken>>)),
      L(1, XddLine(TRUE, Ref(<<"2">>))),
      L(0, WordsLine("a", <<Tok(1)>>)) }

TrailingInputs ==
    { << L(0, XddLine(TRUE, Ref(<<"0">>))) >> \o PhaseChunk("A", 1) \o << L(0, BlankLine) >>
      \o t \o nxt
         : t \in SeqsUpTo(TrailingLines, MaxBlock),
           nxt \in {<<>>, << L(0, XddLine(TRUE, Ref(<<"2">>))), L(1, StrLine),
                             L(2, PhaseNameLine("B")), L(2, MVWLine),
                             L(2, WordsLine("r_bragg", <<Tok(2)>>)) >>} }

Inputs == FileInputs \cup BlockInputs \cup DeclarationInputs \cup TrailingInputs

Init ==
    /\ input \in Inputs
    /\ line_queue = input
    /\ pc = "driver"
    /\ measurements = <<>>
    /\ cur_m = NoMeasurement
    /\ cur_s = NewStructure
    /\ error = NoError
    /\ m_entry = <<>>
    /\ s_entry = <<>>
    /\ blocks = <<>>
    /\ dataframes = [structures |-> <<>>, atoms |-> <<>>]

Spec == Init /\ [][Next]_vars

----------------------------------------------------------------------------
(* Properties *)

IsDeclaration(line) == line.ind = 0 /\ line.c.k = "xdd"

\* C1: when the parse ends without an error, the result holds one Measurement
\* for each input line that begins with xdd, in source order (the i-th
\* Measurement carries the source reference of the i-th such line); no other
\* line adds a Measurement
C1_OneMeasurementPerDeclaration ==
    pc = "done" =>
        LET decls == SelectSeq(input, IsDeclaration)
        IN  /\ Len(measurements) = Len(decls)
            /\ \A i \in 1..Len(decls) : measurements[i].xy_file_path = decls[i].c.ref

\* two declarations with different references and a top-level line that is
\* no declaration, parsed to the end
C1_Witness ==
    /\ pc = "done"
    /\ Len(measurements) = 2
    /\ measurements[1].xy_file_path # measurements[2].xy_file_path
    /\ \E i \in 1..Len(input) : input[i].ind = 0 /\ ~IsDeclaration(input[i])
    /\ measurements[2].structures # <<>>

RequiredKeys == {"r_bragg", "molar_mass", "cell_volume", "mass_fraction"}

\* C2: when a structure block ends, the Structure is returned only if
\* phase_name is non-empty and the four required keys are present; otherwise
\* MissingInformationError is raised, naming phase_name whenever phase_name is
\* empty, and naming the missing key when phase_name is set and exactly one
\* required key is absent
C2_EndOfBlockCheck ==
    [][ (pc = "structure" /\ ~StructureLoop(line_queue)) =>
          LET missing  == RequiredKeys \ DOMAIN cur_s.params
              complete == cur_s.phase_name # "" /\ missing = {}
          IN  /\ complete => (pc' = "measurement" /\ error' = NoError)
              /\ ~complete => (pc' = "raised" /\ error'.kind = "MissingInformationError")
              /\ cur_s.phase_name = "" => error'.arg = "phase_name"
              /\ (cur_s.phase_name # "" /\ Cardinality(missing) = 1) => error'.arg \in missing
      ]_vars

\* a block without phase name and without r_bragg was reported as lacking
\* phase_name
C2_Witness ==
    /\ pc = "raised"
    /\ error = MissingInformationError("phase_name")
    /\ cur_s.phase_name = ""
    /\ "r_bragg" \notin DOMAIN cur_s.params
    /\ "molar_mass" \in DOMAIN cur_s.params

Decodable(token) == token.form # "bad"

\* the keys a structure-level line assigns, in the order it assigns them: a
\* generic parameter line, a derived-quantity triple or a shorthand of a
\* known crystal system whose values all decode and whose arity fits
AssignedKeys(c) ==
    IF c.k = "words"
    THEN IF c.first \in NUMERICAL_PARAMS /\ c.rest # <<>> /\ Decodable(c.rest[1])
         THEN <<c.first>> ELSE <<>>
    ELSE IF c.k = "paren" /\ \A i \in 1..Len(c.values) : Decodable(c.values[i])
    THEN IF c.name = "MVW" /\ Len(c.values) = 3
         THEN <<"molar_mass", "cell_volume", "mass_fraction">>
         ELSE IF c.name \in DOMAIN CRYSTAL_SYSTEMS
         THEN IF Len(c.values) = Len(CRYSTAL_SYSTEMS[c.name])
              THEN <<"crystal_system">> \o Flatten(CRYSTAL_SYSTEMS[c.name])
              ELSE <<"crystal_system">>
         ELSE <<>>
    ELSE <<>>

\* C3: within a structure block no stored entry is ever overwritten or
\* removed, and a line whose first assignment to an already-present key is
\* its i-th one aborts the parse with DuplicatedParameterError naming that key
C3_UniqueAssignment ==
    [][ pc = "structure" =>
          /\ \A k \in DOMAIN cur_s.params :
                k \in DOMAIN cur_s'.params /\ cur_s'.params[k] = cur_s.params[k]
          /\ StructureLoop(line_queue) =>
                LET keys == AssignedKeys(Head(line_queue).c)
                    dup  == {i \in 1..Len(keys) : keys[i] \in DOMAIN cur_s.params}
                IN  dup # {} =>
                       /\ pc' = "raised"
                       /\ error' = DuplicatedParameterError(
                                       keys[CHOOSE i \in dup : \A j \in dup : i <= j])
      ]_vars

\* an explicit `a` line followed by a shorthand that assigns a
C3_Witness ==
    /\ pc = "raised"
    /\ error = DuplicatedParameterError("a")
    /\ "crystal_system" \in DOMAIN cur_s.params
    /\ "b" \notin DOMAIN cur_s.params

SystemNames ==
    {"Triclinic", "Monoclinic", "Orthorhombic", "Tetragonal", "Hexagonal", "Trigonal", "Cubic"}

CellParams == {"a", "b", "c", "al", "be", "ga"}

\* a line of the shape <Name>(<values>) whose name is none of the seven
\* systems and which is no derived-quantity triple
UnknownShorthand(c) == c.k = "paren" /\ c.name \notin SystemNames /\ ~MatchesMVW(c)

\* the lines a structure block consumed: the two-tab lines at the front of
\* the cursor it was entered with
RECURSIVE TwoTabRun(_)
TwoTabRun(queue) ==
    IF queue # <<>> /\ Head(queue).ind = 2
    THEN <<Head(queue)>> \o TwoTabRun(Tail(queue)) ELSE <<>>

DeclaredArity(name) ==
    CASE name = "Triclinic" -> 6
      [] name = "Monoclinic" -> 4
      [] name = "Orthorhombic" -> 3
      [] name \in {"Tetragonal", "Hexagonal", "Trigonal"} -> 2
      [] name = "Cubic" -> 1

\* C5: a shorthand of a known system whose value list has another length
\* than the system's declared arity aborts the parse with an error, and the
\* line assigns none of a, b, c, al, be, ga
C5_ArityMismatch ==
    [][ (pc = "structure" /\ StructureLoop(line_queue)
            /\ Head(line_queue).c.k = "paren"
            /\ Head(line_queue).c.name \in SystemNames
            /\ Len(Head(line_queue).c.values) # DeclaredArity(Head(line_queue).c.name)) =>
          /\ pc' = "raised"
          /\ error' # NoError
          /\ \A p \in CellParams :
                /\ p \in DOMAIN cur_s'.params <=> p \in DOMAIN cur_s.params
                /\ p \in DOMAIN cur_s.params => cur_s'.params[p] = cur_s.params[p]
      ]_vars

\* Tetragonal with three values: the count mismatch was raised and no cell
\* parameter was set
C5_Witness ==
    /\ pc = "raised"
    /\ error = ValueError("number of values")
    /\ "crystal_system" \in DOMAIN cur_s.params
    /\ cur_s.params["crystal_system"].str = "Tetragonal"
    /\ CellParams \cap DOMAIN cur_s.params = {}

\* the slot of the value list each cell parameter takes its value from
ExpectedSlot(name) ==
    CASE name = "Triclinic" ->
            [a |-> 1, b |-> 2, c |-> 3, al |-> 4, be |-> 5, ga |-> 6]
      [] name = "Monoclinic" -> [a |-> 1, b |-> 2, c |-> 3, be |-> 4]
      [] name = "Orthorhombic" -> [a |-> 1, b |-> 2, c |-> 3]
      [] name \in {"Tetragonal", "Hexagonal", "Trigonal"} -> [a |-> 1, b |-> 1, c |-> 2]
      [] name = "Cubic" -> [a |-> 1, b |-> 1, c |-> 1]

\* C6: a shorthand with the correct arity that is processed without error
\* leaves every parameter of the i-th slot holding the Value of the i-th
\* listed value, and, error or not, changes no other cell parameter
C6_ShorthandAssignment ==
    [][ (pc = "structure" /\ StructureLoop(line_queue)
            /\ Head(line_queue).c.k = "paren"
            /\ Head(line_queue).c.name \in SystemNames
            /\ Len(Head(line_queue).c.values) = DeclaredArity(Head(line_queue).c.name)) =>
          LET c    == Head(line_queue).c
              slot == ExpectedSlot(c.name)
          IN  /\ pc' = "structure" =>
                    \A p \in DOMAIN slot :
                       /\ p \in DOMAIN cur_s'.params
                       /\ p \notin DOMAIN cur_s.params
                       /\ cur_s'.params[p] = ValueParse(c.values[slot[p]]).value
              /\ \A p \in CellParams \ DOMAIN slot :
                    /\ p \in DOMAIN cur_s'.params <=> p \in DOMAIN cur_s.params
                    /\ p \in DOMAIN cur_s.params => cur_s'.params[p] = cur_s.params[p]
      ]_vars

\* Tetragonal(V1, V2) was processed: a = b = V1 and c = V2 with V1 # V2
C6_Witness ==
    /\ pc = "structure"
    /\ {"crystal_system", "a", "b", "c"} \subseteq DOMAIN cur_s.params
    /\ cur_s.params["crystal_system"].str = "Tetragonal"
    /\ cur_s.params["a"] = cur_s.params["b"]
    /\ cur_s.params["a"].value = Float(1, 1)
    /\ cur_s.params["c"].value = Float(2, 1)
    /\ {"al", "be", "ga"} \cap DOMAIN cur_s.params = {}

\* C7 as stated: every error that aborts a parse is a ParseError (the class
\* ParsingError), a MissingInformationError or a DuplicatedParameterError
C7_OnlyDeclaredErrors ==
    error.kind \in {"None", "ParsingError", "MissingInformationError",
                    "DuplicatedParameterError"}

\* the text of a source reference ends with _<digits>-0_C.xy
EndsWithTemperatureSuffix(ref) ==
    /\ Len(ref) >= 3
    /\ ref[Len(ref)] = "-0_C.xy"
    /\ \E k \in 1..(Len(ref) - 2) :
          ref[k] = "_" /\ \A j \in (k + 1)..(Len(ref) - 1) : ref[j] \in {"0", "2"}

\* the digit run of such a reference
DigitRun(ref) ==
    LET k == CHOOSE k \in 1..(Len(ref) - 2) :
                ref[k] = "_" /\ \A j \in (k + 1)..(Len(ref) - 1) : ref[j] \in {"0", "2"}
    IN  SubSeq(ref, k + 1, Len(ref) - 1)

\* the number a digit run denotes, read from the left
RECURSIVE Denoted(_, _)
Denoted(acc, run) ==
    IF run = <<>> THEN acc
    ELSE Denoted(10 * acc + (IF Head(run) = "2" THEN 2 ELSE 0), Tail(run))

\* C8: a declaration whose source reference ends with _<digits>-0_C.xy
\* starts a Measurement whose temperature is the number the digit run
\* denotes; for any other source reference the construction fails and the
\* cursor is left as it was handed over (the lines after the declaration)
C8_Temperature ==
    [][ (pc = "driver" /\ DriverLoop(line_queue) /\ IsDeclaration(Head(line_queue))
            /\ Head(line_queue).c.quoted /\ Head(line_queue).c.ref # <<>>) =>
          LET ref == Head(line_queue).c.ref
          IN  IF EndsWithTemperatureSuffix(ref)
              THEN /\ pc' = "measurement"
                   /\ cur_m'.xy_file_path = ref
                   /\ cur_m'.temperature = Denoted(0, DigitRun(ref))
              ELSE /\ pc' = "raised"
                   /\ error' # NoError
                   /\ measurements' = measurements
                   /\ line_queue' = Tail(line_queue)
      ]_vars

\* the reference _020-0_C.xy gave the temperature 20
C8_Witness ==
    /\ pc = "measurement"
    /\ cur_m.xy_file_path = <<"_", "0", "2", "0", "-0_C.xy">>
    /\ cur_m.temperature = 20

\* the cursor without the lines at its front that have at least n tabs
RECURSIVE DropIndented(_, _)
DropIndented(queue, n) ==
    IF queue # <<>> /\ Head(queue).ind >= n THEN DropIndented(Tail(queue), n) ELSE queue

\* C9: when the Structure parser returns, the cursor is the one it was
\* entered with less the maximal run of two-tab lines at its front; when the
\* Measurement parser returns, it is the one it was entered with less the
\* maximal run of lines starting with a tab; the rest is untouched
C9_BlockBoundaries ==
    [][ /\ (pc = "structure" /\ pc' = "measurement") =>
              line_queue' = DropIndented(s_entry, 2)
        /\ (pc = "measurement" /\ pc' = "driver") =>
              line_queue' = DropIndented(m_entry, 1)
      ]_vars

\* a Structure returned in front of a one-tab sibling line, after consuming
\* at least one line
C9_Witness ==
    /\ pc = "measurement"
    /\ blocks # <<>>
    /\ line_queue # <<>>
    /\ Head(line_queue).ind = 1
    /\ line_queue = DropIndented(s_entry, 2)
    /\ Len(line_queue) < Len(s_entry)

\* the index of the last completed block carrying a phase name
LastBlock(name) ==
    CHOOSE i \in 1..Len(blocks) :
        /\ blocks[i].phase_name = name
        /\ \A j \in (i + 1)..Len(blocks) : blocks[j].phase_name # name

\* C10: the structures of a Measurement are keyed by phase name, one entry
\* per distinct phase name among its completed blocks, each holding the
\* Structure parsed from the last block of that name
C10_LastWriteWins ==
    LET names == {blocks[i].phase_name : i \in 1..Len(blocks)}
    IN  /\ Len(cur_m.structures) = Cardinality(names)
        /\ DictKeys(cur_m.structures) = names
        /\ \A n \in names : DictGet(cur_m.structures, n) = blocks[LastBlock(n)]

\* a Measurement returned with three blocks, the first two named alike and
\* differing in content, and two structures stored
C10_Witness ==
    /\ pc = "driver"
    /\ measurements # <<>>
    /\ measurements[Len(measurements)] = cur_m
    /\ Len(blocks) = 3
    /\ blocks[1].phase_name = blocks[2].phase_name
    /\ blocks[1] # blocks[2]
    /\ Len(cur_m.structures) = 2

\* every Structure there is: the one being parsed, those stored in the
\* Measurement being parsed and those of the Measurements already returned
StructuresOf(m) == {m.structures[i].val : i \in 1..Len(m.structures)}

AllStructures ==
    {cur_s} \cup StructuresOf(cur_m)
            \cup UNION {StructuresOf(measurements[i]) : i \in 1..Len(measurements)}

\* C11 as stated: every entry of every Structure's params is a decoded Value
C11_AllEntriesAreValues ==
    \A s \in AllStructures : \A k \in DOMAIN s.params : s.params[k].type = "Value"

\* C11, amended: every entry of params is a decoded Value, except the entry
\* crystal_system, which holds the name of the crystal system as a string
C11_EntriesAreValuesButCrystalSystem ==
    \A s \in AllStructures : \A k \in DOMAIN s.params :
        IF k = "crystal_system"
        THEN s.params[k].type = "str" /\ s.params[k].str \in SystemNames
        ELSE /\ s.params[k].type = "Value"
             /\ DOMAIN s.params[k] =
                   {"type", "value", "error", "has_been_fitted", "parameters"}

\* a stored Structure holding the system name next to decoded cell parameters
C11_Witness ==
    /\ pc = "measurement"
    /\ \E s \in StructuresOf(cur_m) :
          /\ {"crystal_system", "a", "r_bragg", "molar_mass"} \subseteq DOMAIN s.params
          /\ s.params["crystal_system"].type = "str"
          /\ s.params["a"].type = "Value"

\* the atom rows carrying a measurement id and a phase name
RowsOf(id, name) ==
    {j \in 1..Len(dataframes.atoms) :
        dataframes.atoms[j].measurement_id = id /\ dataframes.atoms[j].phase_name = name}

RECURSIVE SumOver(_, _)
SumOver(f, n) == IF n = 0 THEN 0 ELSE f[n] + SumOver(f, n - 1)

StructureCount == SumOver([i \in 1..Len(measurements) |-> Len(measurements[i].structures)],
                          Len(measurements))

\* C12 as stated: to_dataframes returns, for any list of measurements, one
\* structures row per stored Structure and one atoms row per Atom of every
\* Structure of every Measurement, each atom row carrying the measurement id
\* and phase name of its owner
C12_OneRowPerStructureAndAtom ==
    /\ pc # "export_raised"
    /\ pc = "exported" =>
          /\ Len(dataframes.structures) = StructureCount
          /\ \A i \in 1..Len(measurements) : \A k \in 1..Len(measurements[i].structures) :
                Cardinality(RowsOf(i - 1, measurements[i].structures[k].key))
                    = Len(measurements[i].structures[k].val.atoms)
          /\ \A j \in 1..Len(dataframes.atoms) :
                \E i \in 1..Len(measurements) :
                    /\ dataframes.atoms[j].measurement_id = i - 1
                    /\ dataframes.atoms[j].phase_name \in DictKeys(measurements[i].structures)

\* the index in the file of the line at the front of the cursor
Position == Len(input) - Len(line_queue) + 1

\* line i of the file follows, with no declaration in between, a line without
\* a leading tab that is not a declaration and itself follows a declaration:
\* the block of that declaration's Measurement has ended before line i
AfterBlockEnd(i) ==
    \E d \in 1..(i - 1) : \E j \in (d + 1)..(i - 1) :
        /\ IsDeclaration(input[d])
        /\ input[j].ind = 0
        /\ \A k \in j..i : ~IsDeclaration(input[k])

\* the lines on which a parser would raise or start a structure
WouldBeParsed(line) ==
    \/ line.c.k = "str"
    \/ line.c.k = "site"
    \/ line.c.k = "words" /\ line.c.rest = <<>>
    \/ line.c.k = "r_exp"

\* C13: a line that follows the end of a Measurement's block, up to the next
\* line beginning with xdd, is popped by the driver and by nothing else; the
\* step adds nothing to any Measurement, changes no Structure and raises no
\* error, whatever the line looks like
C13_DiscardedUntilNextDeclaration ==
    [][ (line_queue # <<>> /\ Position <= Len(input) /\ AfterBlockEnd(Position)) =>
            /\ pc = "driver"
            /\ pc' = "driver"
            /\ line_queue' = Tail(line_queue)
            /\ measurements' = measurements
            /\ cur_m' = cur_m
            /\ cur_s' = cur_s
            /\ blocks' = blocks
            /\ error' = NoError
      ]_vars

\* a parse that returned without error although a structure start and a
\* non-matching site line followed the end of the first Measurement's block;
\* the Measurement holds the one structure of its block
C13_Witness ==
    /\ pc = "done"
    /\ error = NoError
    /\ Len(measurements) = 2
    /\ Len(measurements[1].structures) = 1
    /\ Len(measurements[1].structures[1].val.atoms) = 1
    /\ \E i \in 1..Len(input) : \E j \in 1..Len(input) :
          /\ AfterBlockEnd(i) /\ input[i] = L(1, StrLine)
          /\ AfterBlockEnd(j) /\ input[j] = L(2, SiteLine(FALSE, "", <<>>))

====
